---- MODULE Spec2Model ----
(***************************************************************************)
(* Model of the Kaiiddo Cloud file hosting service: the Flask handlers of  *)
(* src/app.py (persistent deployment, "app") and src/api/app.py            *)
(* (serverless deployment, "api"), run side by side on the same requests.  *)
(*                                                                         *)
(* Strings whose characters matter (file names, ids, storage keys) are     *)
(* sequences of one-character strings.  An Authorization header value is a *)
(* sequence of atoms: an atom is either the whitespace " " or a piece of   *)
(* text without whitespace; adjacent pieces concatenate.  No concatenation *)
(* of the pieces used here equals another piece, so equality of sequences  *)
(* of pieces is equality of the strings they spell.                        *)
(*                                                                         *)
(* Each handler is one atomic action: a handler reads or writes the        *)
(* storage directory at most once and shares nothing else with the other   *)
(* requests.  The storage directory of a deployment is a function from     *)
(* storage keys (names of the direct children of UPLOAD_FOLDER) to the     *)
(* bytes of the file.  Storage reads and writes succeed.                   *)
(***************************************************************************)
EXTENDS FiniteSets, Integers, Sequences, TLC

VARIABLES store, resp, last, uploads, count, probe

vars == <<store, resp, last, uploads, count, probe>>

(***************************************************************************)
(* Bounds of the model.                                                    *)
(***************************************************************************)
MaxNameLen == 4
MaxHeaderLen == 5
MaxUploads == 2
NumIds == 2

(***************************************************************************)
(* Configuration of the two deployments.                                   *)
(***************************************************************************)
Deployments == {"app", "api"}

VALID_API_KEY_PREFIX(d) == IF d = "app" THEN "kaiiddo-ith" ELSE "kaiiddo-ituw"

TokenSuffix == "-8b7c4a1e9f2d6g3h5j0k9l8m7n6p5q4r"

FULL_VALID_TOKEN(d) == VALID_API_KEY_PREFIX(d) \o TokenSuffix

UPLOAD_FOLDER(d) == IF d = "app" THEN "uploaded_files" ELSE "/tmp/uploaded_files"

IdLen == 12

(***************************************************************************)
(* Generic helpers on sequences.                                           *)
(***************************************************************************)
SeqsUpTo(S, n) == UNION {[1..k -> S] : k \in 0..n}

RECURSIVE Flatten(_)
Flatten(ss) == IF ss = <<>> THEN <<>> ELSE Head(ss) \o Flatten(Tail(ss))

Contains(s, c) == \E i \in 1..Len(s) : s[i] = c

(***************************************************************************)
(* str.split(): the maximal runs of non-whitespace, in order.              *)
(***************************************************************************)
Whitespace == {" ", "\t"}

RECURSIVE SplitFrom(_, _, _)
SplitFrom(s, cur, acc) ==
    IF s = <<>>
    THEN IF cur = <<>> THEN acc ELSE Append(acc, cur)
    ELSE IF Head(s) \in Whitespace
         THEN SplitFrom(Tail(s), <<>>,
                        IF cur = <<>> THEN acc ELSE Append(acc, cur))
         ELSE SplitFrom(Tail(s), Append(cur, Head(s)), acc)

split(s) == SplitFrom(s, <<>>, <<>>)

(***************************************************************************)
(* str.lower() on the pieces of a header value.                            *)
(***************************************************************************)
UpperOfAppToken == "KAIIDDO-ITH-8B7C4A1E9F2D6G3H5J0K9L8M7N6P5Q4R"

LowerPiece(p) ==
    CASE p = "Bearer" -> "bearer"
      [] p = UpperOfAppToken -> FULL_VALID_TOKEN("app")
      [] OTHER -> p

lower(t) == [i \in 1..Len(t) |-> LowerPiece(t[i])]

(***************************************************************************)
(* werkzeug.utils.secure_filename, as called by the upload handler, on a   *)
(* POSIX host (os.sep = "/", os.path.altsep = None, os.name # "nt").       *)
(*   1. NFKD-normalise and drop what does not encode to ASCII              *)
(*   2. replace every path separator by a space                            *)
(*   3. split on whitespace and join the words with "_"                    *)
(*   4. delete every character outside [A-Za-z0-9_.-]                      *)
(*   5. strip leading and trailing "." and "_"                             *)
(***************************************************************************)
EAcute == "U+00E9"

AsciiFold(c) ==
    CASE c = EAcute -> <<"e">>
      [] OTHER -> <<c>>

NormalizeAscii(s) == Flatten([i \in 1..Len(s) |-> AsciiFold(s[i])])

PathSeps == {"/"}

ReplaceSeps(s) == [i \in 1..Len(s) |-> IF s[i] \in PathSeps THEN " " ELSE s[i]]

RECURSIVE Join(_, _)
Join(sep, words) ==
    IF words = <<>> THEN <<>>
    ELSE IF Len(words) = 1 THEN Head(words)
    ELSE Head(words) \o sep \o Join(sep, Tail(words))

SafeChars == {"a", "e", "_", ".", "-", "0", "1", "2", "3", "4", "5", "6", "7",
              "8", "9", "b", "c", "d", "f"}

AsciiStrip(s) == SelectSeq(s, LAMBDA c : c \in SafeChars)

StripChars == {".", "_"}

RECURSIVE LStrip(_)
LStrip(s) == IF s # <<>> /\ Head(s) \in StripChars THEN LStrip(Tail(s)) ELSE s

RECURSIVE RStrip(_)
RStrip(s) ==
    IF s # <<>> /\ s[Len(s)] \in StripChars
    THEN RStrip(SubSeq(s, 1, Len(s) - 1))
    ELSE s

UnsafeSecureFilename(name) == name

secure_filename(name) ==
    RStrip(LStrip(AsciiStrip(Join(<<"_">>, split(ReplaceSeps(NormalizeAscii(name)))))))

(***************************************************************************)
(* uuid.uuid4().hex[:12]: any string of IdLen lower-case hex digits.  The  *)
(* model draws it from NumIds of them; nothing in the handler prevents a   *)
(* value from being drawn again.                                           *)
(***************************************************************************)
HexDigits == <<"0", "1", "2", "3", "4", "5", "6", "7", "8", "9",
               "a", "b", "c", "d", "e", "f">>

Ids == {[i \in 1..IdLen |-> HexDigits[k]] : k \in 1..NumIds}

Payloads == {<<104>>, <<104, 105>>}

(***************************************************************************)
(* Responses.  kind is "json" (jsonify), "html" (a string body, which      *)
(* Flask sends as text/html) or "file" (the raw file).                     *)
(***************************************************************************)
NoResponse ==
    [status |-> 0, kind |-> "none", ok |-> "absent", errorCode |-> 0,
     errorMessage |-> "", fileName |-> <<>>, linkId |-> <<>>, body |-> <<>>,
     requiredToken |-> ""]

WrongCodeJsonError(code, message) ==
    [NoResponse EXCEPT !.status = code, !.kind = "json", !.ok = "false",
                       !.errorCode = IF code = 401 THEN 403 ELSE code,
                       !.errorMessage = message]

JsonError(code, message) ==
    [NoResponse EXCEPT !.status = code, !.kind = "json", !.ok = "false",
                       !.errorCode = code, !.errorMessage = message]

MsgMissingHeader == "Authentication required. Missing Authorization header."
MsgBadFormat == "Invalid Authorization header format. Must be 'Bearer [token]'."
MsgInvalidToken == "Invalid Bearer Token. Token must match: "
MsgNoFilePart == "No file part in the request body."
MsgNoSelectedFile == "No selected file for upload."

DocsResponse(d) ==
    [NoResponse EXCEPT !.status = 200, !.kind = "json",
                       !.requiredToken = FULL_VALID_TOKEN(d)]

UploadSuccess(unique_id, filename) ==
    [NoResponse EXCEPT !.status = 200, !.kind = "json", !.ok = "true",
                       !.fileName = filename, !.linkId = unique_id]

FileResponse(bytes) ==
    [NoResponse EXCEPT !.status = 200, !.kind = "file", !.body = bytes]

HtmlNotFound == [NoResponse EXCEPT !.status = 404, !.kind = "html"]

(***************************************************************************)
(* Requests.  An absent Authorization header is present = FALSE.           *)
(***************************************************************************)
NoHeader == [present |-> FALSE, value |-> <<>>]

Header(v) == [present |-> TRUE, value |-> v]

NoFile == [hasFile |-> FALSE, filename |-> <<>>, payload |-> <<>>]

FilePart(name, bytes) == [hasFile |-> TRUE, filename |-> name, payload |-> bytes]

(***************************************************************************)
(* POST /api/upload, step 1: the bearer token check.  The result is the    *)
(* error response, or NoResponse when the header passes.                   *)
(***************************************************************************)
AuthenticateLowerToken(d, auth_header) ==
    IF ~auth_header.present \/ auth_header.value = <<>>
    THEN JsonError(401, MsgMissingHeader)
    ELSE LET parts == split(auth_header.value) IN
         IF Len(parts) # 2
         THEN JsonError(401, MsgBadFormat)
         ELSE LET scheme == parts[1]
                  token == parts[2] IN
              IF lower(scheme) # <<"bearer">> \/ lower(token) # <<FULL_VALID_TOKEN(d)>>
              THEN JsonError(403, MsgInvalidToken \o FULL_VALID_TOKEN(d))
              ELSE NoResponse

AuthenticateApiStrict(d, auth_header) ==
    IF ~auth_header.present \/ auth_header.value = <<>>
    THEN JsonError(401, MsgMissingHeader)
    ELSE LET parts == split(auth_header.value) IN
         IF Len(parts) # 2
         THEN JsonError(401, MsgBadFormat)
         ELSE LET scheme == parts[1]
                  token == parts[2]
                  given == IF d = "api" THEN scheme ELSE lower(scheme) IN
              IF given # <<"bearer">> \/ token # <<FULL_VALID_TOKEN(d)>>
              THEN JsonError(403, MsgInvalidToken \o FULL_VALID_TOKEN(d))
              ELSE NoResponse

Authenticate(d, auth_header) ==
    IF ~auth_header.present \/ auth_header.value = <<>>
    THEN JsonError(401, MsgMissingHeader)
    ELSE LET parts == split(auth_header.value) IN
         IF Len(parts) # 2
         THEN JsonError(401, MsgBadFormat)
         ELSE LET scheme == parts[1]
                  token == parts[2] IN
              IF lower(scheme) # <<"bearer">> \/ token # <<FULL_VALID_TOKEN(d)>>
              THEN JsonError(403, MsgInvalidToken \o FULL_VALID_TOKEN(d))
              ELSE NoResponse

(***************************************************************************)
(* Step 2: the file checks.  request.files has the field "file" iff the    *)
(* multipart body has a part of that name with a filename parameter.       *)
(***************************************************************************)
FileCheck(file) ==
    IF ~file.hasFile
    THEN JsonError(400, MsgNoFilePart)
    ELSE IF file.filename = <<>>
         THEN JsonError(400, MsgNoSelectedFile)
         ELSE NoResponse

(***************************************************************************)
(* Step 3: the storage key and the write.  file.save opens the path for    *)
(* writing ("wb"), which creates the file or replaces its content.         *)
(***************************************************************************)
UnseparatedStorageFilename(unique_id, filename) == unique_id \o filename

storage_filename(unique_id, filename) == unique_id \o <<"-">> \o filename

Save(st, key, bytes) ==
    [k \in (DOMAIN st) \cup {key} |-> IF k = key THEN bytes ELSE st[k]]

(***************************************************************************)
(* The whole handler: the response, the storage after it, and the upload   *)
(* it recorded (none when the request failed).                             *)
(***************************************************************************)
FileCheckFirstUpload(d, st, auth_header, file, unique_id) ==
    LET auth == Authenticate(d, auth_header)
        check == FileCheck(file) IN
    IF check # NoResponse
    THEN [resp |-> check, store |-> st, stored |-> {}]
    ELSE IF auth # NoResponse
    THEN [resp |-> auth, store |-> st, stored |-> {}]
    ELSE LET filename == secure_filename(file.filename) IN
         [resp |-> UploadSuccess(unique_id, filename),
          store |-> Save(st, storage_filename(unique_id, filename), file.payload),
          stored |-> {[id |-> unique_id, fileName |-> filename,
                       bytes |-> file.payload]}]

api_upload_file(d, st, auth_header, file, unique_id) ==
    LET auth == Authenticate(d, auth_header)
        check == FileCheck(file) IN
    IF auth # NoResponse
    THEN [resp |-> auth, store |-> st, stored |-> {}]
    ELSE IF check # NoResponse
    THEN [resp |-> check, store |-> st, stored |-> {}]
    ELSE LET filename == secure_filename(file.filename) IN
         [resp |-> UploadSuccess(unique_id, filename),
          store |-> Save(st, storage_filename(unique_id, filename), file.payload),
          stored |-> {[id |-> unique_id, fileName |-> filename,
                       bytes |-> file.payload]}]

(***************************************************************************)
(* GET /share/<file_id>/<filename>.  The route's string converters match   *)
(* a non-empty segment without "/"; any other path gets the framework's    *)
(* own 404 page and never reaches the handler.                             *)
(***************************************************************************)
IsSegment(s) == s # <<>> /\ ~Contains(s, "/")

RouteMatches(file_id, filename) == IsSegment(file_id) /\ IsSegment(filename)

(***************************************************************************)
(* send_from_directory: safe_join refuses a path that leaves the           *)
(* directory, and a path that is not a regular file raises NotFound; the   *)
(* handler turns every exception into its HTML 404.                        *)
(***************************************************************************)
SafeJoinOk(path) ==
    /\ path # <<".", ".">>
    /\ ~(Len(path) >= 1 /\ path[1] = "/")
    /\ ~(Len(path) >= 3 /\ SubSeq(path, 1, 3) = <<".", ".", "/">>)

serve_shared_file(st, file_id, filename) ==
    LET path == file_id \o <<"-">> \o filename IN
    IF SafeJoinOk(path) /\ path \in DOMAIN st
    THEN FileResponse(st[path])
    ELSE HtmlNotFound

GetShare(st, file_id, filename) ==
    IF RouteMatches(file_id, filename)
    THEN serve_shared_file(st, file_id, filename)
    ELSE HtmlNotFound

(***************************************************************************)
(* The state: per deployment the storage directory and the response to the *)
(* last request; the last request; the history of successful uploads; the  *)
(* number of successful upload requests; and, in the specifications that   *)
(* enumerate the inputs of one upload, the upload request still to be      *)
(* sent.                                                                   *)
(***************************************************************************)
EmptyDir == [k \in {} |-> <<>>]

NoRequest ==
    [kind |-> "none", header |-> [d \in Deployments |-> NoHeader],
     file |-> NoFile, unique_id |-> <<>>, file_id |-> <<>>, filename |-> <<>>]

Init ==
    /\ store = [d \in Deployments |-> EmptyDir]
    /\ resp = [d \in Deployments |-> NoResponse]
    /\ last = NoRequest
    /\ uploads = [d \in Deployments |-> {}]
    /\ count = 0
    /\ probe = NoRequest

(***************************************************************************)
(* One POST /api/upload sent to both deployments.  headers[d] is the       *)
(* Authorization header deployment d receives.                             *)
(***************************************************************************)
UploadRequest(headers, file, unique_id) ==
    LET out == [d \in Deployments |->
                   api_upload_file(d, store[d], headers[d], file, unique_id)]
        success == \E d \in Deployments : out[d].stored # {} IN
    /\ success => count < MaxUploads
    /\ store' = [d \in Deployments |-> out[d].store]
    /\ resp' = [d \in Deployments |-> out[d].resp]
    /\ uploads' = [d \in Deployments |-> uploads[d] \cup out[d].stored]
    /\ count' = IF success THEN count + 1 ELSE count
    /\ last' = [NoRequest EXCEPT !.kind = "upload", !.header = headers,
                                 !.file = file,
                                 !.unique_id = IF success THEN unique_id ELSE <<>>]

ShareRequest(file_id, filename) ==
    /\ probe = NoRequest
    /\ resp' = [d \in Deployments |-> GetShare(store[d], file_id, filename)]
    /\ last' = [NoRequest EXCEPT !.kind = "share", !.file_id = file_id,
                                 !.filename = filename]
    /\ UNCHANGED <<store, uploads, count, probe>>

serve_api_docs_json ==
    /\ probe = NoRequest
    /\ resp' = [d \in Deployments |-> DocsResponse(d)]
    /\ last' = [NoRequest EXCEPT !.kind = "docs"]
    /\ UNCHANGED <<store, uploads, count, probe>>

(***************************************************************************)
(* The requests the environment sends.  The client file names are a sample *)
(* of the sanitizer's cases: kept as it is, kept with its leading "-", and *)
(* sanitized to the empty string.  Uploads that carry each deployment's    *)
(* own secret take every file part; uploads without a header, and with the *)
(* secret of "app" sent to both deployments, take two.                     *)
(***************************************************************************)
BearerHeader(token) == Header(<<"Bearer", " ", token>>)

SameHeader(h) == [d \in Deployments |-> h]

OwnSecretHeaders == [d \in Deployments |-> BearerHeader(FULL_VALID_TOKEN(d))]

MainNames == {<<"a">>, <<"-", "a">>, <<".", ".", "/">>}

MainFiles ==
    {NoFile, FilePart(<<>>, <<104>>)}
        \cup {FilePart(n, b) : n \in MainNames, b \in Payloads}

OtherHeaders == {SameHeader(NoHeader), SameHeader(BearerHeader(FULL_VALID_TOKEN("app")))}

OtherFiles == {NoFile, FilePart(<<"a">>, <<104>>)}

MainUploads ==
    {[headers |-> OwnSecretHeaders, file |-> f] : f \in MainFiles}
        \cup {[headers |-> h, file |-> f] : h \in OtherHeaders, f \in OtherFiles}

ShareFileIds == {id \o s : id \in Ids, s \in SeqsUpTo({"-"}, 1)}

ShareNames == {secure_filename(n) : n \in MainNames}

Upload ==
    \E req \in MainUploads, unique_id \in Ids :
        /\ probe = NoRequest
        /\ UploadRequest(req.headers, req.file, unique_id)
        /\ probe' = probe

Share ==
    \E file_id \in ShareFileIds, filename \in ShareNames :
        ShareRequest(file_id, filename)

Docs == serve_api_docs_json

Next == Upload \/ Share \/ Docs

Spec == Init /\ [][Next]_vars

(***************************************************************************)
(* One upload with enumerated inputs: the request to send is drawn in the  *)
(* initial state and sent to the freshly started service.                  *)
(***************************************************************************)
ProbeRequest(h, file, unique_id) ==
    [NoRequest EXCEPT !.kind = "upload", !.header = SameHeader(h),
                      !.file = file, !.unique_id = unique_id]

SendProbe ==
    /\ probe # NoRequest
    /\ UploadRequest(probe.header, probe.file, probe.unique_id)
    /\ probe' = NoRequest

NextProbe == SendProbe

(***************************************************************************)
(* Authentication probes: every header value of up to MaxHeaderLen atoms,  *)
(* with no file part, an empty file name and a file.                       *)
(***************************************************************************)
HeaderAtoms ==
    {" ", "\t", "Bearer", "bearer", UpperOfAppToken}
        \cup {FULL_VALID_TOKEN(d) : d \in Deployments}

ProbeHeaders == {NoHeader} \cup {Header(v) : v \in SeqsUpTo(HeaderAtoms, MaxHeaderLen)}

ProbeFiles == OtherFiles \cup {FilePart(<<>>, <<104>>)}

InitAuth ==
    /\ store = [d \in Deployments |-> EmptyDir]
    /\ resp = [d \in Deployments |-> NoResponse]
    /\ last = NoRequest
    /\ uploads = [d \in Deployments |-> {}]
    /\ count = 0
    /\ probe \in {ProbeRequest(h, file, [i \in 1..IdLen |-> "0"]) :
                     h \in ProbeHeaders, file \in ProbeFiles}

SpecAuth == InitAuth /\ [][NextProbe]_vars

(***************************************************************************)
(* File name probes: authenticated uploads of every client file name of up *)
(* to MaxNameLen characters.                                               *)
(***************************************************************************)
ProbeChars == {"a", ".", "/", "-", " ", "~", EAcute}

ProbeNames == SeqsUpTo(ProbeChars, MaxNameLen)

InitSanitize ==
    /\ store = [d \in Deployments |-> EmptyDir]
    /\ resp = [d \in Deployments |-> NoResponse]
    /\ last = NoRequest
    /\ uploads = [d \in Deployments |-> {}]
    /\ count = 0
    /\ probe \in {[NoRequest EXCEPT !.kind = "upload", !.header = OwnSecretHeaders,
                                    !.file = FilePart(name, <<104>>),
                                    !.unique_id = unique_id] :
                     name \in ProbeNames, unique_id \in Ids}

SpecSanitize == InitSanitize /\ [][NextProbe]_vars

(***************************************************************************)
(* Vocabulary of the properties, stated without the handler's operators.   *)
(***************************************************************************)
TokenStarts(v) ==
    {i \in 1..Len(v) : v[i] \notin Whitespace /\ (i = 1 \/ v[i - 1] \in Whitespace)}

TokenEnd(v, i) ==
    CHOOSE e \in i..Len(v) :
        /\ \A k \in i..e : v[k] \notin Whitespace
        /\ e = Len(v) \/ v[e + 1] \in Whitespace

TokenAt(v, i) == SubSeq(v, i, TokenEnd(v, i))

BearerSpellings == {"bearer", "Bearer", "BEARER"}

TwoTokens(h) == h.present /\ Cardinality(TokenStarts(h.value)) = 2

HeaderPasses(h, d) ==
    /\ TwoTokens(h)
    /\ \E i, j \in TokenStarts(h.value) :
          /\ i < j
          /\ Len(TokenAt(h.value, i)) = 1
          /\ TokenAt(h.value, i)[1] \in BearerSpellings
          /\ TokenAt(h.value, j) = <<FULL_VALID_TOKEN(d)>>

Key(u) == u.id \o <<"-">> \o u.fileName

(* C1: the Authorization header of an upload request gets 401 exactly when
   it is absent, empty or not two whitespace-separated tokens, 403 exactly
   when it is two tokens but the scheme is not "bearer" ignoring case or the
   token is not the configured secret, and passes exactly when it is two
   tokens with scheme "bearer" ignoring case and the exact secret. *)
C1_AuthClassification ==
    last.kind = "upload" =>
        \A d \in Deployments :
            LET h == last.header[d]
                s == resp[d].status IN
            /\ s = 401 <=> ~TwoTokens(h)
            /\ s = 403 <=> (TwoTokens(h) /\ ~HeaderPasses(h, d))
            /\ s \notin {401, 403} <=> HeaderPasses(h, d)

C1_Witness ==
    /\ last.kind = "upload"
    /\ \E d \in Deployments :
          /\ resp[d].status = 403
          /\ last.header[d].value = <<"\t", "bearer", " ", " ", UpperOfAppToken>>

(* C5: the outcome of an upload request is decided by the first failing
   check in the order authentication, file field, file name: a failed
   authentication gives 401 or 403 whatever the file part is, a missing file
   field then gives 400 "no file part", an empty file name then gives 400
   "no selected file", and 200 is returned only when all three pass. *)
C5_CheckOrder ==
    last.kind = "upload" =>
        \A d \in Deployments :
            LET h == last.header[d]
                r == resp[d] IN
            /\ ~HeaderPasses(h, d) => r.status \in {401, 403}
            /\ (HeaderPasses(h, d) /\ ~last.file.hasFile) =>
                   (r.status = 400 /\ r.errorMessage = MsgNoFilePart)
            /\ (HeaderPasses(h, d) /\ last.file.hasFile /\ last.file.filename = <<>>) =>
                   (r.status = 400 /\ r.errorMessage = MsgNoSelectedFile)
            /\ r.status = 200 =>
                   (HeaderPasses(h, d) /\ last.file.hasFile /\ last.file.filename # <<>>)

C5_Witness ==
    /\ last.kind = "upload"
    /\ ~last.file.hasFile
    /\ \E d \in Deployments : resp[d].status = 403
    /\ \E d \in Deployments : resp[d].status = 400

(* C7: the storage key written by a successful upload contains no directory
   separator and is not a name of the directory itself or its parent, so
   every stored file is a direct child of the storage directory, whatever
   the client file name was. *)
C7_KeyInsideStorage ==
    \A d \in Deployments :
        \A k \in DOMAIN store[d] :
            /\ ~Contains(k, "/")
            /\ k \notin {<<".">>, <<".", ".">>}

C7_Witness ==
    /\ last.kind = "upload"
    /\ last.file.filename = <<".", ".", "/", "a">>
    /\ \E d \in Deployments :
          /\ resp[d].status = 200
          /\ storage_filename(last.unique_id, <<"a">>) \in DOMAIN store[d]

(* C2: round trip.  A GET /share request that uses the id and the fileName
   reported by a successful upload returns 200 with the bytes of that
   upload. *)
C2_RoundTrip ==
    last.kind = "share" =>
        \A d \in Deployments :
            \A u \in uploads[d] :
                (last.file_id = u.id /\ last.filename = u.fileName) =>
                    (resp[d].status = 200 /\ resp[d].body = u.bytes)

(* C3: no step of the service overwrites, changes or removes a stored file:
   the bytes under a storage key are the same in every later state. *)
C3_NeverOverwritten ==
    [][\A d \in Deployments :
          \A k \in DOMAIN store[d] :
              k \in DOMAIN store'[d] /\ store'[d][k] = store[d][k]]_vars

(* C4 as stated: GET /share returns 200 only for an (id, filename) pair that
   one successful upload returned as its id and its stored file name, and
   404 for every other pair. *)
C4_OnlyReturnedPairs ==
    last.kind = "share" =>
        \A d \in Deployments :
            /\ resp[d].status \in {200, 404}
            /\ resp[d].status = 200 =>
                   \E u \in uploads[d] :
                       u.id = last.file_id /\ u.fileName = last.filename

(* C4 amended: GET /share returns 200 exactly when the path has two
   non-empty segments and id + "-" + filename is the storage key of some
   successful upload, and then returns the bytes of an upload with that
   key; in every other case it returns 404. *)
C4_ByStorageKey ==
    last.kind = "share" =>
        \A d \in Deployments :
            LET path == last.file_id \o <<"-">> \o last.filename
                hits == {u \in uploads[d] : Key(u) = path} IN
            /\ resp[d].status \in {200, 404}
            /\ resp[d].status = 200 <=>
                   (RouteMatches(last.file_id, last.filename) /\ hits # {})
            /\ resp[d].status = 200 => \E u \in hits : resp[d].body = u.bytes

C4_Witness ==
    /\ last.kind = "share"
    /\ Len(last.file_id) > IdLen
    /\ \E d \in Deployments :
          /\ resp[d].status = 200
          /\ ~\E u \in uploads[d] : u.id = last.file_id

(* C6: once an upload has succeeded with id I and stored file name N, a
   GET /share/I/N returns 200 with that upload's bytes in every later
   state. *)
C6_AlwaysRetrievable ==
    \A d \in Deployments :
        \A u \in uploads[d] :
            GetShare(store[d], u.id, u.fileName) = FileResponse(u.bytes)

(* C8 as stated: every failure response, on every endpoint, is a JSON body
   {ok:false, errorCode, errorMessage} whose errorCode is the HTTP status,
   and the only response that is not JSON is the file body of a successful
   retrieval. *)
C8_AllErrorsJson ==
    \A d \in Deployments :
        /\ resp[d].status >= 400 =>
               /\ resp[d].kind = "json"
               /\ resp[d].ok = "false"
               /\ resp[d].errorCode = resp[d].status
        /\ resp[d].kind \notin {"json", "none"} =>
               (last.kind = "share" /\ resp[d].status = 200)

(* C8 amended: every failure response of /api/upload (401, 403 and both
   400s) is a JSON body {ok:false, errorCode, errorMessage} whose errorCode
   is the HTTP status; the 404 of /share is an HTML body; the responses that
   are not JSON are those of /share, the file body and the HTML 404. *)
C8_UploadErrorsJson ==
    \A d \in Deployments :
        /\ (last.kind = "upload" /\ resp[d].status # 200) =>
               /\ resp[d].status \in {400, 401, 403}
               /\ resp[d].kind = "json"
               /\ resp[d].ok = "false"
               /\ resp[d].errorCode = resp[d].status
               /\ resp[d].errorMessage # ""
        /\ (last.kind = "share" /\ resp[d].status # 200) =>
               (resp[d].status = 404 /\ resp[d].kind = "html")
        /\ resp[d].kind \in {"html", "file"} => last.kind = "share"

C8_Witness ==
    /\ last.kind = "upload"
    /\ resp["app"].status = 401
    /\ resp["api"].status = 401

(* C9: an upload that ends in 401, 403 or 400, a /docs request and a /share
   request leave the stored keys and bytes unchanged, and a successful
   upload adds exactly one key and changes nothing else. *)
C9_Frame ==
    [][\A d \in Deployments :
          /\ last'.kind \in {"docs", "share"} => store'[d] = store[d]
          /\ (last'.kind = "upload" /\ resp'[d].status \in {400, 401, 403}) =>
                 store'[d] = store[d]
          /\ (last'.kind = "upload" /\ resp'[d].status = 200) =>
                 \E k \in DOMAIN store'[d] :
                     /\ k \notin DOMAIN store[d]
                     /\ DOMAIN store'[d] = DOMAIN store[d] \cup {k}
                     /\ \A j \in DOMAIN store[d] : store'[d][j] = store[d][j]]_vars

(* C10 as stated: sent the same request, headers included, the two
   deployments return the same status code. *)
C10_SameStatus ==
    (last.kind = "upload" => last.header["app"] = last.header["api"]) =>
        resp["app"].status = resp["api"].status

(* C10 amended: the two deployments differ in the storage directory and in
   the configured secret.  From equal storage, a /docs or /share request, an
   upload whose header carries neither secret, and an upload that carries to
   each deployment its own secret get the same status and the same kind of
   response from both and leave their storage equal; an upload that carries
   the same header to both is never accepted by both. *)
MentionsSecret(h) ==
    \E i \in 1..Len(h.value) : \E d \in Deployments : h.value[i] = FULL_VALID_TOKEN(d)

Corresponding(req) ==
    req.kind = "upload" =>
        \/ req.header = OwnSecretHeaders
        \/ req.header["app"] = req.header["api"] /\ ~MentionsSecret(req.header["app"])

SameOutcome(r1, r2) ==
    /\ r1.status = r2.status
    /\ r1.kind = r2.kind
    /\ r1.ok = r2.ok
    /\ r1.errorCode = r2.errorCode
    /\ r1.fileName = r2.fileName
    /\ r1.linkId = r2.linkId
    /\ r1.body = r2.body

C10_SameLogic ==
    [][/\ (store["app"] = store["api"] /\ Corresponding(last')) =>
              /\ SameOutcome(resp'["app"], resp'["api"])
              /\ store'["app"] = store'["api"]
       /\ (last'.kind = "upload" /\ last'.header["app"] = last'.header["api"]) =>
              \E d \in Deployments : resp'[d].status \in {401, 403}]_vars

C10_Witness ==
    /\ last.kind = "upload"
    /\ last.header = OwnSecretHeaders
    /\ resp["app"].status = 200
    /\ resp["api"].status = 200
    /\ store["app"] = store["api"]

====
